---- MODULE Spec2Model ----
(***************************************************************************)
(* PDFChat: the conversation store (src/models.py, class ConversationDB)   *)
(* on SQLite and the Flask handlers of src/api/app.py that call it.        *)
(*                                                                         *)
(* Text is a sequence of one-character strings.  A timestamp is the        *)
(* number of seconds on the database clock (CURRENT_TIMESTAMP has a        *)
(* resolution of one second).  Every write method runs in one SQLite       *)
(* transaction that ends with conn.commit(), so a write is one step.       *)
(***************************************************************************)
EXTENDS Integers, Sequences, FiniteSets, TLC

\* ------------------------------------------------------------------ bounds
MaxId    == 2   \* conversation ids the model lets AUTOINCREMENT issue
MaxMsgId == 2   \* message ids the model lets AUTOINCREMENT issue
MaxTime  == 1   \* last second of the database clock
MaxFragments == 2   \* fragments one response_gen produces
MaxNodes     == 2   \* source nodes of one response

\* ------------------------------------------------------------ value space
\* Python None / JSON null / SQL NULL, and "argument or key not given".
None   == <<"<None>">>
Absent == <<"<absent>">>

\* The default of the title parameter and of data.get("title", ...).
NEW_CONVERSATION ==
    <<"N","e","w"," ","C","o","n","v","e","r","s","a","t","i","o","n">>

Ids      == 1..MaxId
Titles   == { <<>>, <<"a","B">> }
Roles    == { <<"user">>, <<"assistant">> }
Contents == { <<"a">>, <<"A","b">> }
Queries  == { <<"a">>, <<"A","b">>, <<"b","a">>, <<"_">>, <<"%">> }
Offsets  == {0, 1}

Min(a, b) == IF a < b THEN a ELSE b

\* ------------------------------------------------------------------ state
VARIABLES
    conversations,    \* table conversations: id -> [title, created_at, updated_at]
    messages,         \* table messages, in id order
    sqlite_sequence,  \* AUTOINCREMENT high-water marks of the two tables
    now,              \* CURRENT_TIMESTAMP
    calls,            \* per conversation: the add_message calls made on it since it was created
    last,             \* the last call of the store, and how it ended
    issued,           \* the ids create_conversation has returned, in order
    rd,               \* a get_conversation between its two SELECTs
    agent,            \* create_app's nonlocal agent
    chat,             \* the response stream of POST /api/chat
    _agent_instance,  \* qa_agent's module global
    constructed,      \* how many times QAAgent() has returned
    requests,         \* per thread: a request inside get_or_create_agent()
    writers           \* per thread: an add_message between its statements

vars == <<conversations, messages, sqlite_sequence, now, calls, last,
          issued, rd, agent, chat, _agent_instance, constructed, requests,
          writers>>
\* The agent of the app and of the process.
agents == <<agent, _agent_instance, constructed>>
\* What no method of the store touches.
app_state == <<rd, agents, chat, requests, writers>>
tables == <<conversations, messages, sqlite_sequence>>

NoneResult == [none |-> TRUE]

\* No get_conversation is between its SELECTs; no chat response is open.
NoRead == [pc |-> "idle"]
NoChat == [pc |-> "idle"]

\* The threads of the server that handle requests; each call of a method of
\* the store opens its own connection.
MaxThreads == 2
Threads == 1..MaxThreads
NoRequest == [pc |-> "idle"]
NoWrite == [pc |-> "idle"]

\* ------------------------------------------------------- SQL expressions
\* datetime(x) || 'Z'
datetime_Z(t) == <<t, "Z">>

\* SQLite's LIKE folds the case of ASCII letters only.
like_fold(ch) ==
    CASE ch = "A" -> "a"
      [] ch = "B" -> "b"
      [] OTHER -> ch

\* text LIKE pattern: '%' matches any run of characters, '_' any one.
RECURSIVE like(_, _)
like(pattern, text) ==
    IF pattern = <<>> THEN text = <<>>
    ELSE IF Head(pattern) = "%"
         THEN \/ like(Tail(pattern), text)
              \/ text # <<>> /\ like(pattern, Tail(text))
    ELSE IF Head(pattern) = "_"
         THEN text # <<>> /\ like(Tail(pattern), Tail(text))
    ELSE /\ text # <<>>
         /\ like_fold(Head(pattern)) = like_fold(Head(text))
         /\ like(Tail(pattern), Tail(text))

\* f"%{query}%"
search_pattern(query) == <<"%">> \o query \o <<"%">>

\* As message_count, but the subquery is not correlated with the outer row.
message_count_uncorrelated(id) ==
    Len(messages)

\* SELECT COUNT(*) FROM messages WHERE conversation_id = id
message_count(id) ==
    Cardinality({i \in 1..Len(messages) : messages[i].conversation_id = id})

\* The rows of messages WHERE conversation_id = id ORDER BY id ASC.
RECURSIVE messages_of(_, _)
messages_of(id, msgs) ==
    IF msgs = <<>> THEN <<>>
    ELSE IF Head(msgs).conversation_id = id
         THEN <<Head(msgs)>> \o messages_of(id, Tail(msgs))
         ELSE messages_of(id, Tail(msgs))

\* ORDER BY updated_at DESC over the ids in S.  Both queries scan
\* idx_conversations_updated, which yields equal updated_at in rowid order.
RECURSIVE order_by_updated_desc(_)
order_by_updated_desc(S) ==
    IF S = {} THEN <<>>
    ELSE LET first == CHOOSE c \in S : \A d \in S :
                         \/ conversations[c].updated_at > conversations[d].updated_at
                         \/ /\ conversations[c].updated_at = conversations[d].updated_at
                            /\ c <= d
         IN <<first>> \o order_by_updated_desc(S \ {first})

\* LIMIT n OFFSET k: a negative LIMIT is no limit, a negative OFFSET is 0.
limit_offset(rows, n, k) ==
    LET from == IF k < 0 THEN 0 ELSE k
        rest == SubSeq(rows, from + 1, Len(rows))
    IN IF n < 0 THEN rest ELSE SubSeq(rest, 1, Min(n, Len(rest)))

\* One row of the SELECT list of list_conversations / search_conversations.
summary_row(id) ==
    [id            |-> id,
     title         |-> conversations[id].title,
     created_at    |-> datetime_Z(conversations[id].created_at),
     updated_at    |-> datetime_Z(conversations[id].updated_at),
     message_count |-> message_count(id)]

\* --------------------------------------------------------------- reads
get_conversation(conversation_id) ==
    IF conversation_id \notin DOMAIN conversations THEN NoneResult
    ELSE LET rows == messages_of(conversation_id, messages)
         IN [id         |-> conversation_id,
             title      |-> conversations[conversation_id].title,
             created_at |-> datetime_Z(conversations[conversation_id].created_at),
             updated_at |-> datetime_Z(conversations[conversation_id].updated_at),
             messages   |-> [i \in 1..Len(rows) |->
                                [role       |-> rows[i].role,
                                 content    |-> rows[i].content,
                                 created_at |-> datetime_Z(rows[i].created_at)]]]

list_conversations(limit, offset) ==
    LET ordered == order_by_updated_desc(DOMAIN conversations)
        rows    == [i \in 1..Len(ordered) |-> summary_row(ordered[i])]
    IN limit_offset(rows, limit, offset)

\* conversations c LEFT JOIN messages m ON c.id = m.conversation_id, for
\* one c: its messages' contents, or one row with m.content NULL.
left_join(id) ==
    LET rows == messages_of(id, messages)
    IN IF rows = <<>> THEN <<None>>
       ELSE [i \in 1..Len(rows) |-> rows[i].content]

\* WHERE c.title LIKE ? OR m.content LIKE ?  (NULL LIKE ? is not true)
where_like(title, content, pattern) ==
    \/ like(pattern, title)
    \/ content # None /\ like(pattern, content)

\* The joined rows that pass WHERE, as the conversation id of each, in
\* ORDER BY order.
RECURSIVE joined_matches(_, _)
joined_matches(ordered, pattern) ==
    IF ordered = <<>> THEN <<>>
    ELSE LET id   == Head(ordered)
             join == left_join(id)
             hits == SelectSeq(join, LAMBDA content :
                         where_like(conversations[id].title, content, pattern))
         IN [i \in 1..Len(hits) |-> id] \o joined_matches(Tail(ordered), pattern)

\* SELECT DISTINCT: every selected column is a function of c.id.
RECURSIVE select_distinct(_)
select_distinct(ids) ==
    IF ids = <<>> THEN <<>>
    ELSE <<Head(ids)>> \o
         select_distinct(SelectSeq(Tail(ids), LAMBDA x : x # Head(ids)))

search_conversations(query, limit) ==
    LET ordered  == order_by_updated_desc(DOMAIN conversations)
        ids      == select_distinct(joined_matches(ordered, search_pattern(query)))
        rows     == [i \in 1..Len(ids) |-> summary_row(ids[i])]
    IN limit_offset(rows, limit, 0)

\* ------------------------------------------------ write transactions
\* Each operator is the body of one "with sqlite3.connect(...)" block: the
\* statements up to conn.commit(), or no change at all when a statement
\* raises (the connection's context manager rolls the transaction back).

\* INSERT INTO conversations (title) VALUES (?): title is NOT NULL.
create_conversation_raises(title) == title = None

\* As create_conversation_id, but without AUTOINCREMENT: the largest id in
\* the table plus one.
create_conversation_id_max_rowid ==
    IF DOMAIN conversations = {} THEN 1
    ELSE (CHOOSE m \in DOMAIN conversations :
              \A c \in DOMAIN conversations : c <= m) + 1

\* cursor.lastrowid of the INSERT (AUTOINCREMENT never reissues an id).
create_conversation_id == sqlite_sequence.conversations + 1

\* As create_conversation_tx, but an empty title is replaced by the default.
create_conversation_tx_empty_defaults(title) ==
    IF create_conversation_raises(title)
    THEN UNCHANGED <<tables, calls>>
    ELSE /\ conversations' = conversations @@
                (create_conversation_id :>
                    [title |-> IF title = <<>> THEN NEW_CONVERSATION ELSE title,
                     created_at |-> now, updated_at |-> now])
         /\ sqlite_sequence' =
                [sqlite_sequence EXCEPT !.conversations = create_conversation_id]
         /\ calls' = [calls EXCEPT ![create_conversation_id] = <<>>]
         /\ UNCHANGED messages

create_conversation_tx(title) ==
    IF create_conversation_raises(title)
    THEN UNCHANGED <<tables, calls>>
    ELSE /\ conversations' = conversations @@
                (create_conversation_id :>
                    [title |-> title, created_at |-> now, updated_at |-> now])
         /\ sqlite_sequence' =
                [sqlite_sequence EXCEPT !.conversations = create_conversation_id]
         /\ calls' = [calls EXCEPT ![create_conversation_id] = <<>>]
         /\ UNCHANGED messages

\* As update_conversation_title_raises, but NOT NULL is checked although the
\* WHERE clause matches no row.
update_conversation_title_raises_unmatched(conversation_id, title) ==
    title = None

\* UPDATE conversations SET title = ?, updated_at = CURRENT_TIMESTAMP WHERE id = ?
\* The NOT NULL constraint of title is checked for the rows the WHERE clause
\* matches only.
update_conversation_title_raises(conversation_id, title) ==
    conversation_id \in DOMAIN conversations /\ title = None

\* As update_conversation_title_tx, but updated_at is left as it was.
update_conversation_title_tx_title_only(conversation_id, title) ==
    /\ conversations' =
          IF /\ conversation_id \in DOMAIN conversations
             /\ ~update_conversation_title_raises(conversation_id, title)
          THEN [conversations EXCEPT ![conversation_id].title = title]
          ELSE conversations
    /\ UNCHANGED <<messages, sqlite_sequence, calls>>

update_conversation_title_tx(conversation_id, title) ==
    /\ conversations' =
          IF /\ conversation_id \in DOMAIN conversations
             /\ ~update_conversation_title_raises(conversation_id, title)
          THEN [conversations EXCEPT ![conversation_id].title = title,
                                     ![conversation_id].updated_at = now]
          ELSE conversations
    /\ UNCHANGED <<messages, sqlite_sequence, calls>>

\* INSERT INTO messages ...: role and content are NOT NULL.  This connection
\* never runs PRAGMA foreign_keys = ON, so the FOREIGN KEY clause of the
\* messages table is not enforced by the INSERT.
add_message_raises(conversation_id, role, content) ==
    role = None \/ content = None

add_message_tx(conversation_id, role, content) ==
    IF add_message_raises(conversation_id, role, content)
    THEN UNCHANGED <<tables, calls>>
    ELSE /\ messages' = Append(messages,
                [id              |-> sqlite_sequence.messages + 1,
                 conversation_id |-> conversation_id,
                 role            |-> role,
                 content         |-> content,
                 created_at      |-> now])
         /\ sqlite_sequence' =
                [sqlite_sequence EXCEPT !.messages = sqlite_sequence.messages + 1]
         \* UPDATE conversations SET updated_at = CURRENT_TIMESTAMP WHERE id = ?
         /\ conversations' =
                IF conversation_id \in DOMAIN conversations
                THEN [conversations EXCEPT ![conversation_id].updated_at = now]
                ELSE conversations
         /\ calls' =
                IF conversation_id \in DOMAIN conversations
                THEN [calls EXCEPT ![conversation_id] = Append(@, <<role, content>>)]
                ELSE calls

\* As delete_conversation_tx, but without PRAGMA foreign_keys = ON: the
\* delete does not cascade.
delete_conversation_tx_no_pragma(conversation_id) ==
    /\ conversations' =
          [c \in DOMAIN conversations \ {conversation_id} |-> conversations[c]]
    /\ calls' = IF conversation_id \in DOMAIN conversations
                THEN [calls EXCEPT ![conversation_id] = <<>>]
                ELSE calls
    /\ UNCHANGED <<messages, sqlite_sequence>>

\* PRAGMA foreign_keys = ON; DELETE FROM conversations WHERE id = ?
\* The delete of a row cascades to the messages that reference it.
delete_conversation_tx(conversation_id) ==
    /\ conversations' =
          [c \in DOMAIN conversations \ {conversation_id} |-> conversations[c]]
    /\ messages' =
          IF conversation_id \in DOMAIN conversations
          THEN SelectSeq(messages, LAMBDA m : m.conversation_id # conversation_id)
          ELSE messages
    /\ calls' = IF conversation_id \in DOMAIN conversations
                THEN [calls EXCEPT ![conversation_id] = <<>>]
                ELSE calls
    /\ UNCHANGED sqlite_sequence

\* ------------------------------------------- calls of ConversationDB
\* last: the method, the conversation id (for a create: the id returned, 0
\* when it raised), the arguments, whether the conversation existed when
\* the call began, how the call ended ("ok", "raised", or "rejected" when a
\* handler returned 400 without calling the store) and what a read returned.
\* For a delete, arg is the number of messages the conversation owned when
\* the call began.
Called(op, id, arg, existed, status, result) ==
    /\ last' = [op |-> op, id |-> id, arg |-> arg, existed |-> existed,
                status |-> status, result |-> result]
    /\ issued' = IF op = "create_conversation" /\ status = "ok"
                 THEN Append(issued, id) ELSE issued
    /\ UNCHANGED <<now, app_state>>

status_of(raised) == IF raised THEN "raised" ELSE "ok"

\* The status code a handler answers with: jsonify(...) is 200, the
\* "except Exception" branch 500, a missing field 400, no conversation 404.
http_status(status) ==
    CASE status = "ok" -> 200
      [] status = "raised" -> 500
      [] status = "rejected" -> 400
      [] status = "not_found" -> 404

\* def create_conversation(self, title="New Conversation")
create_conversation(title) ==
    LET t == IF title = Absent THEN NEW_CONVERSATION ELSE title
        raised == create_conversation_raises(t)
    IN /\ raised \/ sqlite_sequence.conversations < MaxId
       /\ create_conversation_tx(t)
       /\ Called("create_conversation",
                 IF raised THEN 0 ELSE create_conversation_id,
                 title, FALSE, status_of(raised), None)

update_conversation_title(conversation_id, title) ==
    /\ update_conversation_title_tx(conversation_id, title)
    /\ Called("update_conversation_title", conversation_id, None,
              conversation_id \in DOMAIN conversations,
              status_of(update_conversation_title_raises(conversation_id, title)),
              None)

add_message(conversation_id, role, content) ==
    LET raised == add_message_raises(conversation_id, role, content)
    IN /\ raised \/ sqlite_sequence.messages < MaxMsgId
       /\ add_message_tx(conversation_id, role, content)
       /\ Called("add_message", conversation_id, None,
                 conversation_id \in DOMAIN conversations, status_of(raised), None)

delete_conversation(conversation_id) ==
    /\ delete_conversation_tx(conversation_id)
    /\ Called("delete_conversation", conversation_id,
              message_count(conversation_id),
              conversation_id \in DOMAIN conversations, "ok", None)

Read(op, id, arg, result) ==
    /\ Called(op, id, arg, id \in DOMAIN conversations, "ok", result)
    /\ UNCHANGED <<tables, calls>>

read_get_conversation(conversation_id) ==
    Read("get_conversation", conversation_id, None,
         get_conversation(conversation_id))

\* def list_conversations(self, limit=50, offset=0): a call without limit
\* is a call with limit DEFAULT_LIMIT, one without offset a call with offset 0.
DEFAULT_LIMIT == 50

Limits == {-1, 0, 1, DEFAULT_LIMIT}

read_list_conversations(limit, offset) ==
    Read("list_conversations", 0, <<limit, offset>>,
         list_conversations(limit, offset))

read_search_conversations(query, limit) ==
    Read("search_conversations", 0, <<query, limit>>,
         search_conversations(query, limit))

\* ------------------------------------------------------ Flask handlers
\* A JSON body is a record of its keys; a key the body lacks holds Absent.
dict_get(data, key, default) == IF data[key] = Absent THEN default ELSE data[key]

\* POST /api/conversations
api_create_conversation(data) ==
    LET title  == dict_get(data, "title", NEW_CONVERSATION)
        raised == create_conversation_raises(title)
    IN /\ raised \/ sqlite_sequence.conversations < MaxId
       /\ create_conversation_tx(title)
       /\ Called("create_conversation",
                 IF raised THEN 0 ELSE create_conversation_id,
                 data.title, FALSE, status_of(raised), None)

\* As api_add_message, but only 'role' is looked for in the body.
api_add_message_role_only(conversation_id, data) ==
    IF data.role = Absent
    THEN /\ UNCHANGED <<tables, calls>>
         /\ Called("add_message", conversation_id, <<data.role, data.content>>,
                   conversation_id \in DOMAIN conversations, "rejected", None)
    ELSE LET raised == add_message_raises(conversation_id, data.role, data.content)
         IN /\ raised \/ sqlite_sequence.messages < MaxMsgId
            /\ add_message_tx(conversation_id, data.role, data.content)
            /\ Called("add_message", conversation_id, <<data.role, data.content>>,
                      conversation_id \in DOMAIN conversations,
                      status_of(raised), None)

\* POST /api/conversations/<int:conversation_id>/messages
api_add_message(conversation_id, data) ==
    IF data.role = Absent \/ data.content = Absent
    THEN /\ UNCHANGED <<tables, calls>>
         /\ Called("add_message", conversation_id, <<data.role, data.content>>,
                   conversation_id \in DOMAIN conversations, "rejected", None)
    ELSE LET raised == add_message_raises(conversation_id, data.role, data.content)
         IN /\ raised \/ sqlite_sequence.messages < MaxMsgId
            /\ add_message_tx(conversation_id, data.role, data.content)
            /\ Called("add_message", conversation_id, <<data.role, data.content>>,
                      conversation_id \in DOMAIN conversations,
                      status_of(raised), None)

\* GET /api/conversations: request.args.get("limit", 50, type=int) and
\* request.args.get("offset", 0, type=int) hand any integer to the store,
\* and DEFAULT_LIMIT and 0 for a parameter the request lacks.
api_get_conversations(limit, offset) ==
    Read("list_conversations", 0, <<limit, offset>>,
         list_conversations(limit, offset))

\* As api_get_conversation, but None is answered like a conversation.
api_get_conversation_none_ok(conversation_id, raises) ==
    /\ Called("api_get_conversation", conversation_id,
              IF raises THEN <<"raises">> ELSE None,
              conversation_id \in DOMAIN conversations,
              IF raises THEN "raised" ELSE "ok",
              IF raises THEN NoneResult ELSE get_conversation(conversation_id))
    /\ UNCHANGED <<tables, calls>>

\* GET /api/conversations/<int:conversation_id>.  raises: the store's
\* get_conversation raises (sqlite3.Error); result: what it returned.
api_get_conversation(conversation_id, raises) ==
    LET conversation == get_conversation(conversation_id)
    IN /\ Called("api_get_conversation", conversation_id,
                 IF raises THEN <<"raises">> ELSE None,
                 conversation_id \in DOMAIN conversations,
                 IF raises THEN "raised"
                 ELSE IF conversation = NoneResult THEN "not_found" ELSE "ok",
                 IF raises THEN NoneResult ELSE conversation)
       /\ UNCHANGED <<tables, calls>>

\* PUT /api/conversations/<int:conversation_id>
api_update_conversation(conversation_id, data) ==
    IF data.title = Absent
    THEN /\ UNCHANGED <<tables, calls>>
         /\ Called("update_conversation_title", conversation_id, data.title,
                   conversation_id \in DOMAIN conversations, "rejected", None)
    ELSE /\ update_conversation_title_tx(conversation_id, data.title)
         /\ Called("update_conversation_title", conversation_id, data.title,
                   conversation_id \in DOMAIN conversations,
                   status_of(update_conversation_title_raises(conversation_id,
                                                              data.title)),
                   None)

\* POST /api/conversations/<id>/generate-title.  A text is the sequence of
\* its characters here, so that Len is len().
TITLE_MAX  == 50
TITLE_KEPT == 47

\* [msg for msg in conversation["messages"] if msg["role"] == "user"]
user_messages(conversation) ==
    SelectSeq(conversation.messages, LAMBDA msg : msg.role = <<"user">>)

\* As generated_title, but the text is cut at TITLE_MAX characters.
generated_title_cut_at_max(first_message) ==
    IF Len(first_message) > TITLE_MAX
    THEN SubSeq(first_message, 1, TITLE_MAX) \o <<".", ".", ".">>
    ELSE first_message

\* first_message[:47] + "..." if len(first_message) > 50 else first_message
generated_title(first_message) ==
    IF Len(first_message) > TITLE_MAX
    THEN SubSeq(first_message, 1, TITLE_KEPT) \o <<".", ".", ".">>
    ELSE first_message

api_generate_conversation_title(conversation_id) ==
    LET conversation == get_conversation(conversation_id)
        existed      == conversation_id \in DOMAIN conversations
    IN IF conversation = NoneResult \/ conversation.messages = <<>>
       THEN /\ UNCHANGED <<tables, calls>>
            /\ Called("generate_conversation_title", conversation_id, None,
                      existed, "not_found", None)
       ELSE IF user_messages(conversation) = <<>>
       THEN /\ UNCHANGED <<tables, calls>>
            /\ Called("generate_conversation_title", conversation_id, None,
                      existed, "rejected", None)
       ELSE LET title == generated_title(user_messages(conversation)[1].content)
            IN /\ update_conversation_title_tx(conversation_id, title)
               /\ Called("generate_conversation_title", conversation_id, None,
                         existed, "ok", [title |-> title])

\* ------------------------------------------ a write that fails on the way
\* The tables as one value.
Tables ==
    [conversations |-> conversations, messages |-> messages,
     sqlite_sequence |-> sqlite_sequence]

\* The SQL statements of each write method, in the order it executes them.
statements(op) ==
    CASE op = "create_conversation" -> <<"INSERT INTO conversations">>
      [] op = "update_conversation_title" -> <<"UPDATE conversations SET title">>
      [] op = "add_message" ->
            <<"INSERT INTO messages", "UPDATE conversations SET updated_at">>
      [] op = "delete_conversation" -> <<"DELETE FROM conversations">>

\* The tables t after one statement of the call, inside its transaction.
execute(t, sql, call) ==
    CASE sql = "INSERT INTO conversations" ->
            LET id == t.sqlite_sequence.conversations + 1
            IN [t EXCEPT !.conversations = @ @@
                            (id :> [title |-> call.title, created_at |-> now,
                                    updated_at |-> now]),
                         !.sqlite_sequence.conversations = id]
      [] sql = "UPDATE conversations SET title" ->
            IF call.id \in DOMAIN t.conversations
            THEN [t EXCEPT !.conversations[call.id].title = call.title,
                           !.conversations[call.id].updated_at = now]
            ELSE t
      [] sql = "INSERT INTO messages" ->
            [t EXCEPT !.messages = Append(@,
                          [id              |-> t.sqlite_sequence.messages + 1,
                           conversation_id |-> call.id,
                           role            |-> call.role,
                           content         |-> call.content,
                           created_at      |-> now]),
                      !.sqlite_sequence.messages = @ + 1]
      [] sql = "UPDATE conversations SET updated_at" ->
            IF call.id \in DOMAIN t.conversations
            THEN [t EXCEPT !.conversations[call.id].updated_at = now]
            ELSE t
      [] sql = "DELETE FROM conversations" ->
            [t EXCEPT !.conversations =
                          [c \in DOMAIN @ \ {call.id} |-> @[c]],
                      !.messages =
                          IF call.id \in DOMAIN t.conversations
                          THEN SelectSeq(@, LAMBDA m : m.conversation_id # call.id)
                          ELSE @]

RECURSIVE run(_, _, _)
run(t, sqls, call) ==
    IF sqls = <<>> THEN t
    ELSE run(execute(t, Head(sqls), call), Tail(sqls), call)

\* As connection_exit, but what was executed stays when the block raises.
connection_exit_no_rollback(raised, before, executed) == executed

\* "with sqlite3.connect(...) as conn": when the block raises, the
\* connection rolls the open transaction back.
connection_exit(raised, before, executed) ==
    IF raised THEN before ELSE executed

\* The n-th statement of a write method fails with an sqlite3.Error (disk
\* I/O error, database is locked), or conn.commit() does when n is one more
\* than the number of statements; the error leaves the method.
write_fails(call, n) ==
    LET sqls     == statements(call.op)
        executed == run(Tables, SubSeq(sqls, 1, n - 1), call)
        end      == connection_exit(TRUE, Tables, executed)
    IN /\ n \in 1..(Len(sqls) + 1)
       /\ conversations' = end.conversations
       /\ messages' = end.messages
       /\ sqlite_sequence' = end.sqlite_sequence
       /\ UNCHANGED calls
       /\ Called(call.op, call.id,
                 <<IF n > Len(sqls) THEN "conn.commit()" ELSE sqls[n]>>,
                 call.id \in DOMAIN conversations, "raised", None)

\* ------------------------------------------ add_message, statement by statement
\* SQLite lets one connection at a time write: the first write statement of
\* a transaction takes the RESERVED lock of the database file, which is
\* released when the transaction ends.
write_lock_free_unlocked == TRUE

write_lock_free ==
    \A t \in Threads : writers[t].pc \notin {"inserted", "updated"}

\* The thread calls add_message: sqlite3.connect opens its connection.
add_message_connect(t, conversation_id, role, content) ==
    /\ writers[t].pc \in {"idle", "returned"}
    /\ writers' = [writers EXCEPT ![t] =
          [pc |-> "connected",
           call |-> [op |-> "add_message", id |-> conversation_id,
                     title |-> <<>>, role |-> role, content |-> content],
           overlapped |-> \E u \in Threads \ {t} :
                              writers[u].pc \notin {"idle", "returned"}]]
    /\ UNCHANGED <<tables, now, calls, last, issued, rd, agents, chat, requests>>

\* cursor.execute("INSERT INTO messages ..."): the implicit BEGIN, and the
\* INSERT once the lock is free.  What the transaction writes is seen by
\* no other connection before the commit.
add_message_insert(t) ==
    /\ writers[t].pc = "connected"
    /\ write_lock_free
    /\ sqlite_sequence.messages < MaxMsgId
    /\ writers' = [writers EXCEPT ![t] =
          [pc |-> "inserted", call |-> @.call, overlapped |-> @.overlapped,
           t |-> execute(Tables, "INSERT INTO messages", @.call)]]
    /\ UNCHANGED <<tables, now, calls, last, issued, rd, agents, chat, requests>>

\* The lock stays taken for longer than the connection's timeout: the INSERT
\* raises sqlite3.OperationalError (database is locked).
add_message_locked(t) ==
    /\ writers[t].pc = "connected"
    /\ ~write_lock_free
    /\ writers' = [writers EXCEPT ![t] =
          [pc |-> "returned", call |-> @.call, overlapped |-> @.overlapped,
           status |-> "raised"]]
    /\ UNCHANGED <<tables, now, calls, last, issued, rd, agents, chat, requests>>

\* cursor.execute("UPDATE conversations SET updated_at = CURRENT_TIMESTAMP ...")
add_message_update(t) ==
    /\ writers[t].pc = "inserted"
    /\ writers' = [writers EXCEPT ![t] =
          [pc |-> "updated", call |-> @.call, overlapped |-> @.overlapped,
           t |-> execute(@.t, "UPDATE conversations SET updated_at", @.call),
           at |-> now]]
    /\ UNCHANGED <<tables, now, calls, last, issued, rd, agents, chat, requests>>

\* conn.commit() and "return cursor.lastrowid".
add_message_commit(t) ==
    LET w == writers[t]
    IN /\ w.pc = "updated"
       /\ conversations' = w.t.conversations
       /\ messages' = w.t.messages
       /\ sqlite_sequence' = w.t.sqlite_sequence
       /\ calls' = IF w.call.id \in DOMAIN conversations
                   THEN [calls EXCEPT ![w.call.id] =
                            Append(@, <<w.call.role, w.call.content>>)]
                   ELSE calls
       /\ writers' = [writers EXCEPT ![t] =
             [pc |-> "returned", call |-> w.call, overlapped |-> w.overlapped,
              status |-> "ok", at |-> w.at,
              result |-> w.t.sqlite_sequence.messages]]
       /\ last' = [op |-> "add_message", id |-> w.call.id, arg |-> None,
                   existed |-> w.call.id \in DOMAIN conversations,
                   status |-> "ok", result |-> None]
       /\ UNCHANGED <<now, issued, rd, agents, chat, requests>>

\* ------------------------------------- get_conversation, statement by statement
\* get_conversation runs two SELECTs on a connection in autocommit mode, with
\* no BEGIN around them: each SELECT reads the database as committed when it
\* runs, and another connection may commit a write between the two.

\* SELECT id, title, created_at, updated_at FROM conversations WHERE id = ?
\* and "if not row: return None".  had: the messages the conversation owns
\* at this point.
get_conversation_select_row(conversation_id) ==
    /\ rd = NoRead
    /\ IF conversation_id \notin DOMAIN conversations
       THEN /\ last' = [op |-> "get_conversation", id |-> conversation_id,
                        arg |-> 0, existed |-> FALSE, status |-> "ok",
                        result |-> NoneResult]
            /\ rd' = rd
       ELSE /\ rd' = [pc  |-> "messages",
                      id  |-> conversation_id,
                      row |-> conversations[conversation_id],
                      had |-> message_count(conversation_id)]
            /\ last' = last
    /\ UNCHANGED <<tables, now, calls, issued, agents, chat, requests, writers>>

\* SELECT role, content, created_at FROM messages WHERE conversation_id = ?
\* ORDER BY id ASC, and the return of the dict built from the two results.
get_conversation_select_messages ==
    /\ rd # NoRead
    /\ LET rows == messages_of(rd.id, messages)
       IN last' = [op |-> "get_conversation", id |-> rd.id, arg |-> rd.had,
                   existed |-> TRUE, status |-> "ok",
                   result |->
                     [id         |-> rd.id,
                      title      |-> rd.row.title,
                      created_at |-> datetime_Z(rd.row.created_at),
                      updated_at |-> datetime_Z(rd.row.updated_at),
                      messages   |-> [i \in 1..Len(rows) |->
                                        [role       |-> rows[i].role,
                                         content    |-> rows[i].content,
                                         created_at |-> datetime_Z(rows[i].created_at)]]]]
    /\ rd' = NoRead
    /\ UNCHANGED <<tables, now, calls, issued, agents, chat, requests, writers>>

\* ------------------------------------------------------- POST /api/chat
\* In the texts of the chat stream a literal of the code, a name between the
\* separators of a path and a file extension are each written as one element.

\* What a handler other than those of the store answered.
Answered(op, arg, status) ==
    /\ last' = [op |-> op, id |-> 0, arg |-> arg, existed |-> FALSE,
                status |-> status, result |-> None]
    /\ UNCHANGED <<tables, calls, now, issued, rd, requests, writers>>

\* config.DATA_DIR, an absolute path.
DATA_DIR == <<"/", "data", "/", "pdfs">>

\* The names of a path: the runs of text between "/", the empty ones and
\* "." left out (pathlib.PurePosixPath).
RECURSIVE path_names(_, _)
path_names(text, name) ==
    LET done == IF name = <<>> \/ name = <<".">> THEN <<>> ELSE <<name>>
    IN IF text = <<>> THEN done
       ELSE IF Head(text) = "/" THEN done \o path_names(Tail(text), <<>>)
       ELSE path_names(Tail(text), Append(name, Head(text)))

Path(text) ==
    [root  |-> text # <<>> /\ Head(text) = "/",
     names |-> path_names(text, <<>>)]

\* Path.relative_to(other) raises ValueError unless other is a leading part
\* of the path.
relative_to_raises(path, other) ==
    ~ /\ path.root = other.root
      /\ Len(other.names) <= Len(path.names)
      /\ SubSeq(path.names, 1, Len(other.names)) = other.names

relative_to(path, other) ==
    [root  |-> FALSE,
     names |-> SubSeq(path.names, Len(other.names) + 1, Len(path.names))]

RECURSIVE join(_, _)
join(sep, names) ==
    IF names = <<>> THEN <<>>
    ELSE IF Len(names) = 1 THEN Head(names)
    ELSE Head(names) \o sep \o join(sep, Tail(names))

as_posix(path) ==
    IF path.names = <<>> THEN (IF path.root THEN <<"/">> ELSE <<".">>)
    ELSE (IF path.root THEN <<"/">> ELSE <<>>) \o join(<<"/">>, path.names)

\* str(i) of a non-negative integer.
Digits == <<"0", "1", "2", "3", "4", "5", "6", "7", "8", "9">>

RECURSIVE str(_)
str(i) ==
    IF i < 10 THEN <<Digits[i + 1]>>
    ELSE str(i \div 10) \o <<Digits[(i % 10) + 1]>>

\* source_id = f"{file_name}_{page_label}"
source_id(file_name, page_label) == file_name \o <<"_">> \o page_label

\* The entry appended to sources for one node that was not seen before.
format_source(file_name, page_label, file_path) ==
    LET display == IF page_label # <<>>
                   THEN file_name \o <<" (Page ">> \o page_label \o <<")">>
                   ELSE file_name
    IN IF file_path # <<>>
       THEN LET pdf_url ==
                  IF relative_to_raises(Path(file_path), Path(DATA_DIR))
                  THEN <<"/static/pdfs/">> \o file_name
                  ELSE <<"/static/pdfs/">> \o
                       as_posix(relative_to(Path(file_path), Path(DATA_DIR)))
            IN <<"[">> \o display \o <<"](">> \o pdf_url \o <<")">>
       ELSE display

\* The loop over response.source_nodes: the list sources it builds.
RECURSIVE format_sources(_, _)
format_sources(source_nodes, seen_sources) ==
    IF source_nodes = <<>> THEN <<>>
    ELSE LET metadata   == Head(source_nodes)
             file_name  == dict_get(metadata, "file_name", <<"Unknown">>)
             page_label == dict_get(metadata, "page_label", <<>>)
             file_path  == dict_get(metadata, "file_path", <<>>)
             id         == source_id(file_name, page_label)
         IN IF id \in seen_sources
            THEN format_sources(Tail(source_nodes), seen_sources)
            ELSE <<format_source(file_name, page_label, file_path)>> \o
                 format_sources(Tail(source_nodes), seen_sources \cup {id})

SOURCES_HEADER == <<"\n\n---\n\n**Sources:**\n\n">>

\* f"{i}. {source}\n"
source_line(i, source) == str(i) \o <<". ">> \o source \o <<"\n">>

\* As sources_block, but the heading is yielded without "if sources".
sources_block_unguarded(sources) ==
    <<SOURCES_HEADER>> \o [i \in 1..Len(sources) |-> source_line(i, sources[i])]

\* What generate() yields after the last token: nothing, or the heading
\* and one line per entry of sources.
sources_block(sources) ==
    IF sources = <<>> THEN <<>>
    ELSE <<SOURCES_HEADER>> \o [i \in 1..Len(sources) |-> source_line(i, sources[i])]

\* f"\n\nError: {str(e)}"
error_marker(e) == <<"\n\nError: ">> \o e

\* As generate_items, but an exception ends the stream without a marker.
generate_items_truncating(response) ==
    IF response.chat_raises THEN <<>>
    ELSE response.fragments \o
         (IF response.gen_raises THEN <<>>
          ELSE sources_block(format_sources(response.source_nodes, {})))

\* Everything generate() yields, in order, for what agent_instance.chat
\* does: it raises, or it returns a response whose response_gen produces
\* the fragments and then ends or raises.
generate_items(response) ==
    IF response.chat_raises THEN <<error_marker(response.error)>>
    ELSE response.fragments \o
         (IF response.gen_raises THEN <<error_marker(response.error)>>
          ELSE sources_block(format_sources(response.source_nodes, {})))

\* The k-th QAAgent instance constructed in the process.
QAAgent(k) == <<"QAAgent", k>>

\* What QAAgent() does when get_agent() calls it: it returns, or raises an
\* exception of some type with some message.
Returned == [raises |-> "none", message |-> <<>>]
Raised(type, message) == [raises |-> type, message |-> message]

\* "if error:": None and the empty string are false.
truthy(text) == text # None /\ text # <<>>

\* get_or_create_agent() calls get_agent() while agent is None, and
\* get_agent() calls QAAgent() while _agent_instance is None.
get_agent_constructs == agent = None /\ _agent_instance = None

\* An exception that is not a RuntimeError is not caught by
\* get_or_create_agent() and leaves the handler.
get_or_create_agent_propagates(outcome) ==
    get_agent_constructs /\ outcome.raises \notin {"none", "RuntimeError"}

\* The second element of the pair get_or_create_agent() returns: str(e) of
\* the RuntimeError, or None.
get_or_create_agent_error(outcome) ==
    IF get_agent_constructs /\ outcome.raises = "RuntimeError"
    THEN outcome.message ELSE None

\* The first element of the pair: the agent, or None.
get_or_create_agent_instance(outcome) ==
    IF agent # None THEN agent
    ELSE IF _agent_instance # None THEN _agent_instance
    ELSE IF outcome.raises = "none" THEN QAAgent(constructed + 1) ELSE None

\* get_or_create_agent() in one step, for handlers that run one at a time.
get_or_create_agent(outcome) ==
    /\ agent' = get_or_create_agent_instance(outcome)
    /\ _agent_instance' = IF agent = None
                          THEN get_or_create_agent_instance(outcome)
                          ELSE _agent_instance
    /\ constructed' = IF get_agent_constructs /\ outcome.raises = "none"
                      THEN constructed + 1 ELSE constructed

\* ------------------------ get_or_create_agent(), line by line, per thread
\* The server handles each request in a thread of its own; neither
\* get_or_create_agent() nor get_agent() takes a lock.  A thread's record
\* keeps what its last get_agent() returned (got) and the pair its last
\* get_or_create_agent() returned (agent_instance, error).
request_rest == <<tables, now, calls, last, issued, rd, chat, writers>>

\* "if agent is None:" in get_or_create_agent().
get_or_create_agent_check(t) ==
    /\ requests[t].pc \in {"idle", "done"}
    /\ requests' = [requests EXCEPT ![t] =
          [pc |-> IF agent = None THEN "get_agent" ELSE "return agent"]]
    /\ UNCHANGED <<request_rest, agents>>

\* "if _agent_instance is None:" in get_agent().
get_agent_check(t) ==
    /\ requests[t].pc = "get_agent"
    /\ requests' = [requests EXCEPT ![t] =
          [pc |-> IF _agent_instance = None THEN "QAAgent()"
                  ELSE "return _agent_instance"]]
    /\ UNCHANGED <<request_rest, agents>>

\* QAAgent() returns a new instance, or raises the RuntimeError that
\* get_or_create_agent() catches: "return None, str(e)".
get_agent_construct(t, outcome) ==
    /\ requests[t].pc = "QAAgent()"
    /\ IF outcome.raises = "none"
       THEN /\ constructed' = constructed + 1
            /\ requests' = [requests EXCEPT ![t] =
                  [pc |-> "_agent_instance =", new |-> QAAgent(constructed + 1)]]
       ELSE /\ constructed' = constructed
            /\ requests' = [requests EXCEPT ![t] =
                  [pc |-> "done", got |-> None, agent_instance |-> None,
                   error |-> outcome.message]]
    /\ UNCHANGED <<request_rest, agent, _agent_instance>>

\* "_agent_instance = QAAgent()": the assignment.
get_agent_assign(t) ==
    /\ requests[t].pc = "_agent_instance ="
    /\ _agent_instance' = requests[t].new
    /\ requests' = [requests EXCEPT ![t] = [pc |-> "return _agent_instance"]]
    /\ UNCHANGED <<request_rest, agent, constructed>>

\* "return _agent_instance" reads the global.
get_agent_return(t) ==
    /\ requests[t].pc = "return _agent_instance"
    /\ requests' = [requests EXCEPT ![t] =
          [pc |-> "agent =", got |-> _agent_instance]]
    /\ UNCHANGED <<request_rest, agents>>

\* "agent = get_agent()": the assignment.
get_or_create_agent_assign(t) ==
    /\ requests[t].pc = "agent ="
    /\ agent' = requests[t].got
    /\ requests' = [requests EXCEPT ![t] =
          [pc |-> "return agent", got |-> @.got]]
    /\ UNCHANGED <<request_rest, _agent_instance, constructed>>

\* "return agent, None" reads the nonlocal.
get_or_create_agent_return(t) ==
    /\ requests[t].pc = "return agent"
    /\ requests' = [requests EXCEPT ![t] =
          [pc |-> "done",
           got |-> IF "got" \in DOMAIN requests[t] THEN requests[t].got ELSE None,
           agent_instance |-> agent, error |-> None]]
    /\ UNCHANGED <<request_rest, agents>>

\* str(e) of the AttributeError of agent_instance.<method> on None.
attribute_error(method) ==
    <<"'NoneType' object has no attribute '">> \o <<method>> \o <<"'">>

\* The response of Flask to an exception that leaves a handler.
INTERNAL_SERVER_ERROR == [html |-> <<"Internal Server Error">>]

\* What a handler that uses the agent answered; upstream is what the agent
\* and its construction did in the request.
AnsweredWith(op, arg, status, result, outcome, raises) ==
    /\ last' = [op |-> op, id |-> 0, arg |-> arg, existed |-> FALSE,
                status |-> status, result |-> result,
                upstream |-> [agent |-> agent, get_agent |-> outcome,
                              raises |-> raises]]
    /\ UNCHANGED <<tables, calls, now, issued, rd, requests, writers>>

\* The handler from get_or_create_agent() to the end of try/except around
\* agent_instance.<method>(): the status and the body of the response.
agent_response(method, outcome, raises, body) ==
    IF get_or_create_agent_propagates(outcome)
    THEN <<"raised", INTERNAL_SERVER_ERROR>>
    ELSE IF truthy(get_or_create_agent_error(outcome))
    THEN <<"raised", [error |-> get_or_create_agent_error(outcome)]>>
    ELSE IF get_or_create_agent_instance(outcome) = None
    THEN <<"raised", [error |-> attribute_error(method)]>>
    ELSE IF raises
    THEN <<"raised", [error |-> <<"boom">>]>>
    ELSE <<"ok", body>>

\* POST /api/query.  raises: agent_instance.query(question) raises.
api_query(data, outcome, raises) ==
    IF data.question = Absent
    THEN /\ Answered("query", data.question, "rejected")
         /\ UNCHANGED <<agents, chat>>
    ELSE LET response == agent_response("query", outcome, raises,
                                        [answer |-> <<"answer">>])
         IN /\ get_or_create_agent(outcome)
            /\ AnsweredWith("query", data.question, response[1], response[2],
                            outcome, raises)
            /\ UNCHANGED chat

\* POST /api/reset.  raises: agent_instance.reset_chat() raises.
api_reset(outcome, raises) ==
    LET response == agent_response("reset_chat", outcome, raises,
                                   [status |-> <<"Chat history reset">>])
    IN /\ get_or_create_agent(outcome)
       /\ AnsweredWith("reset", None, response[1], response[2],
                       outcome, raises)
       /\ UNCHANGED chat

\* POST /api/chat: the handler up to "return Response(...)".  When
\* agent_instance is None, generate() fails at agent_instance.chat.
api_chat(data, outcome, response) ==
    /\ chat = NoChat
    /\ IF data.message = Absent
       THEN /\ Answered("chat", data.message, "rejected")
            /\ UNCHANGED <<agents, chat>>
       ELSE /\ get_or_create_agent(outcome)
            /\ IF get_or_create_agent_propagates(outcome)
               THEN /\ AnsweredWith("chat", data.message, "raised",
                                    INTERNAL_SERVER_ERROR, outcome, FALSE)
                    /\ UNCHANGED chat
               ELSE IF truthy(get_or_create_agent_error(outcome))
               THEN /\ AnsweredWith("chat", data.message, "raised",
                                    [error |-> get_or_create_agent_error(outcome)],
                                    outcome, FALSE)
                    /\ UNCHANGED chat
               ELSE LET chatted ==
                          IF get_or_create_agent_instance(outcome) = None
                          THEN [chat_raises |-> TRUE, fragments |-> <<>>,
                                gen_raises |-> FALSE, source_nodes |-> <<>>,
                                error |-> attribute_error("chat")]
                          ELSE response
                    IN /\ AnsweredWith("chat", data.message, "ok",
                                       [stream |-> TRUE], outcome,
                                       chatted.chat_raises \/ chatted.gen_raises)
                       /\ chat' = [pc       |-> "streaming",
                                   response |-> chatted,
                                   rest     |-> generate_items(chatted),
                                   out      |-> <<>>]

\* As generate_yield, but generate() goes on after it was closed.
generate_yield_after_close ==
    /\ chat.pc \in {"streaming", "closed"}
    /\ chat.rest # <<>>
    /\ chat' = [chat EXCEPT !.out = Append(@, Head(chat.rest)),
                            !.rest = Tail(@)]
    /\ UNCHANGED <<tables, now, calls, last, issued, rd, agents, requests, writers>>

\* The consumer of the response pulls the next item of generate(): rest is
\* what generate() has still to yield, out what the consumer has received.
generate_yield ==
    /\ chat.pc = "streaming"
    /\ chat.rest # <<>>
    /\ chat' = [chat EXCEPT !.out = Append(@, Head(chat.rest)),
                            !.rest = Tail(@)]
    /\ UNCHANGED <<tables, now, calls, last, issued, rd, agents, requests, writers>>

\* generate() returns: the stream is complete.
generate_return ==
    /\ chat.pc = "streaming"
    /\ chat.rest = <<>>
    /\ chat' = [chat EXCEPT !.pc = "done"]
    /\ UNCHANGED <<tables, now, calls, last, issued, rd, agents, requests, writers>>

\* The caller disconnects: the server closes the response iterable, and
\* stream_with_context closes generate().  GeneratorExit is raised at the
\* yield where generate() is suspended (or generate() has not started); it
\* is a BaseException, so "except Exception" does not catch it and
\* generate() ends there with whatever it had still to yield.
generator_close ==
    /\ chat.pc = "streaming"
    /\ chat' = [chat EXCEPT !.pc = "closed"]
    /\ UNCHANGED <<tables, now, calls, last, issued, rd, agents, requests, writers>>

\* The response is closed; the next request may come.
response_close ==
    /\ chat.pc \in {"done", "closed"}
    /\ chat' = NoChat
    /\ UNCHANGED <<tables, now, calls, last, issued, rd, agents, requests, writers>>

\* ------------------------------------------------------ specification
\* One second passes on the database clock.
Tick ==
    /\ now < MaxTime
    /\ now' = now + 1
    /\ UNCHANGED <<tables, calls, last, issued, app_state>>

NoCall == [op |-> "none", id |-> 0, arg |-> None, existed |-> FALSE,
           status |-> "ok", result |-> None]

\* ConversationDB.__init__ on a fresh database file: _init_db creates the
\* two empty tables.
Init ==
    /\ conversations = <<>>
    /\ messages = <<>>
    /\ sqlite_sequence = [conversations |-> 0, messages |-> 0]
    /\ now = 0
    /\ calls = [id \in Ids |-> <<>>]
    /\ last = NoCall
    /\ issued = <<>>
    /\ rd = NoRead
    /\ agent = None
    /\ chat = NoChat
    /\ _agent_instance = None
    /\ constructed = 0
    /\ requests = [t \in Threads |-> NoRequest]
    /\ writers = [t \in Threads |-> NoWrite]

CreateBodies == {[title |-> t] : t \in Titles \cup {None, Absent}}
MessageBodies(roles, contents) ==
    {[role |-> r, content |-> c] :
        r \in roles \cup {Absent}, c \in contents \cup {None, Absent}}

\* The direct calls of the four write methods, with the roles and contents
\* the callers use.
Writes(roles, contents) ==
    \/ \E title \in Titles \cup {None, Absent} : create_conversation(title)
    \/ \E id \in Ids, title \in Titles \cup {None} :
           update_conversation_title(id, title)
    \/ \E id \in Ids, role \in roles, content \in contents \cup {None} :
           add_message(id, role, content)
    \/ \E id \in Ids : delete_conversation(id)

\* The store and its handlers, with the reads by id and by recency.
Next ==
    \/ Tick
    \/ Writes(Roles, {<<"a">>})
    \/ \E data \in CreateBodies : api_create_conversation(data)
    \/ \E id \in Ids, data \in MessageBodies(Roles, {<<"a">>}) :
           api_add_message(id, data)
    \/ \E id \in Ids : read_get_conversation(id)
    \/ \E limit \in Limits, offset \in Offsets : read_list_conversations(limit, offset)
    \/ \E limit \in Limits, offset \in Offsets : api_get_conversations(limit, offset)

Spec == Init /\ [][Next]_vars

\* The store and its handlers within one second of the clock, with the
\* reads by id.
NextStore ==
    \/ Writes({<<"user">>}, {<<"a">>})
    \/ \E data \in CreateBodies : api_create_conversation(data)
    \/ \E id \in Ids, data \in MessageBodies({<<"user">>}, {<<"a">>}) :
           api_add_message(id, data)
    \/ \E id \in Ids : read_get_conversation(id)

SpecStore == Init /\ [][NextStore]_vars

\* The store within one second of the clock, with the searches.
NextSearch ==
    \/ Writes({<<"user">>}, Contents)
    \/ \E query \in Queries, limit \in Limits : read_search_conversations(query, limit)

SpecSearch == Init /\ [][NextSearch]_vars

\* One reader in get_conversation while other connections write.
NextRead ==
    \/ Tick
    \/ Writes({<<"user">>}, {<<"a">>})
    \/ \E id \in Ids : get_conversation_select_row(id)
    \/ get_conversation_select_messages

SpecRead == Init /\ [][NextRead]_vars

\* What the agent is asked and what it does.
ChatBodies == {[message |-> Absent], [message |-> <<"q">>]}

\* get_agent() returns, or QAAgent._load_index raises its RuntimeError.
Constructions == {Returned, Raised("RuntimeError", <<"boom">>)}
Fragments  == { <<"H", "i">>, <<"!">> }
Errors     == { <<"boom">> }

\* Two PDF files, and the metadata SimpleDirectoryReader attaches to a
\* node: the file's name, the page's label in the PDF, the file's path.
PDF_A   == <<"a", ".pdf">>
PDF_A_B == <<"a", ".pdf", "_", "b", ".pdf">>

SourceNodes ==
    { [file_name |-> PDF_A, page_label |-> <<"1">>,
       file_path |-> DATA_DIR \o <<"/", "sub", "/">> \o PDF_A],
      [file_name |-> PDF_A, page_label |-> <<"1">>,
       file_path |-> DATA_DIR \o <<"/">> \o PDF_A],
      [file_name |-> PDF_A, page_label |-> <<"b", ".pdf", "_", "1">>,
       file_path |-> Absent],
      [file_name |-> PDF_A_B, page_label |-> <<"1">>,
       file_path |-> <<"/", "tmp", "/">> \o PDF_A_B],
      [file_name |-> PDF_A, page_label |-> Absent,
       file_path |-> DATA_DIR \o <<"/">> \o PDF_A],
      [file_name |-> Absent, page_label |-> Absent, file_path |-> Absent] }

SeqsUpTo(S, n) == UNION {[1..k -> S] : k \in 0..n}

Responses ==
    {[chat_raises |-> TRUE, fragments |-> <<>>, gen_raises |-> FALSE,
      source_nodes |-> <<>>, error |-> e] : e \in Errors}
    \cup
    {[chat_raises |-> FALSE, fragments |-> f, gen_raises |-> TRUE,
      source_nodes |-> n, error |-> e] :
        f \in SeqsUpTo(Fragments, MaxFragments),
        n \in SeqsUpTo(SourceNodes, MaxNodes), e \in Errors}
    \cup
    {[chat_raises |-> FALSE, fragments |-> f, gen_raises |-> FALSE,
      source_nodes |-> n, error |-> <<>>] :
        f \in SeqsUpTo(Fragments, MaxFragments),
        n \in SeqsUpTo(SourceNodes, MaxNodes)}

EmptyResponse ==
    [chat_raises |-> FALSE, fragments |-> <<>>, gen_raises |-> FALSE,
     source_nodes |-> <<>>, error |-> <<>>]

\* One client of POST /api/chat that reads each response to its end.
NextChat ==
    \/ \E data \in ChatBodies, outcome \in Constructions :
           api_chat(data, outcome, EmptyResponse)
    \/ \E response \in Responses : api_chat([message |-> <<"q">>], Returned, response)
    \/ generate_yield
    \/ generate_return
    \/ response_close

SpecChat == Init /\ [][NextChat]_vars

\* File paths a node's metadata can carry besides those of SourceNodes: a
\* path that names the document root and leaves it again through "..",
\* and one with a "." component.
LinkNodes ==
    SourceNodes \cup
    { [file_name |-> PDF_A, page_label |-> <<"2">>,
       file_path |-> DATA_DIR \o <<"/", "..", "/">> \o PDF_A],
      [file_name |-> PDF_A, page_label |-> <<"3">>,
       file_path |-> DATA_DIR \o <<"/", ".", "/">> \o PDF_A] }

LinkResponses ==
    {[chat_raises |-> FALSE, fragments |-> <<>>, gen_raises |-> FALSE,
      source_nodes |-> n, error |-> <<>>] :
        n \in SeqsUpTo(LinkNodes, MaxNodes) \ {<<>>}}

\* One client of POST /api/chat whose answers have source nodes only.
NextLinks ==
    \/ \E response \in LinkResponses :
           api_chat([message |-> <<"q">>], Returned, response)
    \/ generate_yield
    \/ generate_return
    \/ response_close

SpecLinks == Init /\ [][NextLinks]_vars

CancelResponses ==
    {[chat_raises |-> FALSE, fragments |-> f, gen_raises |-> g,
      source_nodes |-> n, error |-> IF g THEN <<"boom">> ELSE <<>>] :
        f \in SeqsUpTo(Fragments, MaxFragments), g \in BOOLEAN,
        n \in {<<>>, <<[file_name |-> PDF_A, page_label |-> <<"1">>,
                        file_path |-> Absent]>>}}

\* One client of POST /api/chat that may disconnect before the end of the
\* response.
NextCancel ==
    \/ \E response \in CancelResponses :
           api_chat([message |-> <<"q">>], Returned, response)
    \/ generate_yield
    \/ generate_return
    \/ generator_close
    \/ response_close

SpecCancel == Init /\ [][NextCancel]_vars

\* What get_agent() may do besides Constructions: QAAgent() raises a
\* RuntimeError without a message (a bare NotImplementedError is one), or an
\* exception that is not a RuntimeError (HuggingFaceEmbedding and
\* chromadb.PersistentClient are called outside any try).
Upstreams ==
    Constructions \cup {Raised("RuntimeError", <<>>), Raised("OSError", <<"boom">>)}

FailingResponse ==
    [chat_raises |-> TRUE, fragments |-> <<>>, gen_raises |-> FALSE,
     source_nodes |-> <<>>, error |-> <<"boom">>]

\* The three handlers that use the agent.
NextUpstream ==
    \/ \E outcome \in Upstreams, raises \in BOOLEAN :
           api_query([question |-> <<"q">>], outcome, raises)
    \/ \E outcome \in Upstreams, raises \in BOOLEAN : api_reset(outcome, raises)
    \/ \E outcome \in Upstreams, response \in {EmptyResponse, FailingResponse} :
           api_chat([message |-> <<"q">>], outcome, response)
    \/ generate_yield
    \/ generate_return
    \/ response_close

SpecUpstream == Init /\ [][NextUpstream]_vars

\* The requests of one client.
UpdateBodies  == {[title |-> t] : t \in {Absent, NEW_CONVERSATION}}
AddBodies     == {[role |-> <<"user">>, content |-> <<"a">>],
                  [role |-> Absent, content |-> <<"a">>],
                  [role |-> <<"user">>, content |-> Absent]}
QueryBodies   == {[question |-> Absent], [question |-> <<"q">>]}

NextApi ==
    \/ create_conversation(Absent)
    \/ \E id \in Ids, data \in UpdateBodies : api_update_conversation(id, data)
    \/ \E id \in Ids, data \in AddBodies : api_add_message(id, data)
    \/ \E id \in Ids : delete_conversation(id)
    \/ \E id \in Ids, raises \in BOOLEAN : api_get_conversation(id, raises)
    \/ \E data \in QueryBodies, outcome \in Constructions, raises \in BOOLEAN :
           api_query(data, outcome, raises)
    \/ \E data \in ChatBodies, outcome \in Constructions :
           api_chat(data, outcome, EmptyResponse)
    \/ generate_return
    \/ response_close

SpecApi == Init /\ [][NextApi]_vars

\* The writes of the store, and the writes that fail on the way.
FailingCalls ==
    {[op |-> op, id |-> id, title |-> <<>>, role |-> <<"user">>,
      content |-> <<"a">>] :
        op \in {"create_conversation", "update_conversation_title",
                "add_message", "delete_conversation"},
        id \in Ids}

NextFail ==
    \/ \E title \in {Absent, None} : create_conversation(title)
    \/ \E id \in Ids : update_conversation_title(id, None)
    \/ \E id \in Ids, content \in {<<"a">>, None} :
           add_message(id, <<"user">>, content)
    \/ \E id \in Ids : delete_conversation(id)
    \/ \E call \in FailingCalls, n \in 1..3 : write_fails(call, n)

SpecFail == Init /\ [][NextFail]_vars

\* The writes of the store while the database clock runs.
NextClock ==
    \/ Tick
    \/ create_conversation(Absent)
    \/ \E id \in Ids, title \in {NEW_CONVERSATION, None} :
           update_conversation_title(id, title)
    \/ \E id \in Ids : add_message(id, <<"user">>, <<"a">>)
    \/ \E id \in Ids : delete_conversation(id)

SpecClock == Init /\ [][NextClock]_vars

\* Writes that change the number of messages of a conversation, and the two
\* listings.  A conversation with the empty title is found through its
\* messages only.
NextCount ==
    \/ create_conversation(<<>>)
    \/ \E id \in Ids : add_message(id, <<"user">>, <<"a">>)
    \/ \E id \in Ids : delete_conversation(id)
    \/ \E offset \in Offsets : read_list_conversations(-1, offset)
    \/ \E query \in {<<"a">>, <<"_">>} : read_search_conversations(query, -1)

SpecCount == Init /\ [][NextCount]_vars

\* The message each thread adds: "a" once for thread 1, twice for thread 2.
content_of(t) == [i \in 1..t |-> "a"]

\* Threads that add messages to the first conversation at the same time,
\* while the clock runs.
NextWriters ==
    \/ Tick
    \/ write_lock_free /\ conversations = <<>> /\ create_conversation(Absent)
    \/ \E t \in Threads : add_message_connect(t, 1, <<"user">>, content_of(t))
    \/ \E t \in Threads : add_message_insert(t)
    \/ \E t \in Threads : add_message_locked(t)
    \/ \E t \in Threads : add_message_update(t)
    \/ \E t \in Threads : add_message_commit(t)

SpecWriters == Init /\ [][NextWriters]_vars

\* Requests to /api/query, /api/chat and /api/reset on the threads of the
\* server, from get_or_create_agent() to its return.
NextAgents ==
    \/ \E t \in Threads : get_or_create_agent_check(t)
    \/ \E t \in Threads : get_agent_check(t)
    \/ \E t \in Threads, outcome \in Constructions : get_agent_construct(t, outcome)
    \/ \E t \in Threads : get_agent_assign(t)
    \/ \E t \in Threads : get_agent_return(t)
    \/ \E t \in Threads : get_or_create_agent_assign(t)
    \/ \E t \in Threads : get_or_create_agent_return(t)

SpecAgents == Init /\ [][NextAgents]_vars

\* Message texts of n characters.
characters(n) == [i \in 1..n |-> "x"]
TitleContents == {<<"h", "i">>, characters(TITLE_MAX), characters(TITLE_MAX + 1)}

\* Conversations whose messages are short and long, from the user and from
\* the assistant, and the generation of their titles.
NextTitle ==
    \/ create_conversation(Absent)
    \/ \E id \in Ids, role \in Roles, content \in TitleContents :
           add_message(id, role, content)
    \/ \E id \in Ids : api_generate_conversation_title(id)

SpecTitle == Init /\ [][NextTitle]_vars

\* ================================================================ claims

\* The claims' own notions, independent of the queries above.
lower(ch) == CASE ch = "A" -> "a" [] ch = "B" -> "b" [] OTHER -> ch

\* q occurs in text as a case-insensitive substring.
contains_ci(text, q) ==
    \E i \in 0..(Len(text) - Len(q)) :
        \A j \in 1..Len(q) : lower(text[i + j]) = lower(q[j])

ids_of(rows) == {rows[i].id : i \in 1..Len(rows)}

\* C1: add_message with a conversation id that references no conversation
\* fails and leaves no message row for that id.
C1_OrphanRejected ==
    (last.op = "add_message" /\ last.status # "rejected" /\ ~last.existed)
        => (last.status = "raised" /\ message_count(last.id) = 0)

\* C2: every stored message belongs to a conversation that exists.
C2_NoOrphans ==
    \A i \in 1..Len(messages) : messages[i].conversation_id \in DOMAIN conversations

\* C3: after delete_conversation of an existing conversation,
\* get_conversation of its id returns None and no message row carries the id.
C3_DeleteRemovesAll ==
    (last.op = "delete_conversation" /\ last.existed)
        => /\ get_conversation(last.id) = NoneResult
           /\ message_count(last.id) = 0

\* C3 witness: a conversation that owned two messages has just been deleted.
C3_Witness ==
    /\ last.op = "delete_conversation" /\ last.existed /\ last.arg = 2
    /\ get_conversation(last.id) = NoneResult

\* C4: get_conversation returns exactly the messages of the add_message
\* calls made on the conversation, in call order.
C4_MessagesAreTheCalls ==
    \A c \in DOMAIN conversations :
        LET m == get_conversation(c).messages
        IN /\ Len(m) = Len(calls[c])
           /\ \A i \in 1..Len(m) : <<m[i].role, m[i].content>> = calls[c][i]

\* C5: right after create_conversation returns id, get_conversation(id) has
\* no messages and list_conversations reports message_count 0 for id.
C5_CreatedEmpty ==
    (last.op = "create_conversation" /\ last.status = "ok")
        => /\ get_conversation(last.id).messages = <<>>
           /\ \A i \in 1..Len(list_conversations(DEFAULT_LIMIT, 0)) :
                  list_conversations(DEFAULT_LIMIT, 0)[i].id = last.id
                      => list_conversations(DEFAULT_LIMIT, 0)[i].message_count = 0

\* C6 as stated: the stored title is "New Conversation" when the title is
\* absent or empty, and the given title otherwise.
C6_EmptyOrAbsentDefaults ==
    (last.op = "create_conversation" /\ last.status = "ok")
        => get_conversation(last.id).title =
               IF last.arg = Absent \/ last.arg = <<>>
               THEN NEW_CONVERSATION ELSE last.arg

\* C6 amended: the stored title is "New Conversation" when the title is
\* absent; a title that is given, the empty string included, is stored as given.
C6_AbsentDefaults ==
    (last.op = "create_conversation" /\ last.status = "ok")
        => get_conversation(last.id).title =
               IF last.arg = Absent THEN NEW_CONVERSATION ELSE last.arg

\* C6 witness: a create without title has stored the default.
C6_Witness ==
    /\ last.op = "create_conversation" /\ last.status = "ok"
    /\ last.arg = Absent
    /\ get_conversation(last.id).title = NEW_CONVERSATION

\* C7: with a limit of at least the number of conversations, a search
\* returns exactly the conversations whose title or one of whose messages
\* contains the query as a case-insensitive substring.
C7_SearchIsSubstringMatch ==
    (/\ last.op = "search_conversations"
     /\ last.arg[2] >= Cardinality(DOMAIN conversations))
        => ids_of(last.result) =
             {c \in DOMAIN conversations :
                \/ contains_ci(conversations[c].title, last.arg[1])
                \/ \E i \in 1..Len(messages) :
                      /\ messages[i].conversation_id = c
                      /\ contains_ci(messages[i].content, last.arg[1])}

\* The conversations a search for query matches, by title or by message.
search_matches(query) ==
    {c \in DOMAIN conversations :
        \/ like(search_pattern(query), conversations[c].title)
        \/ \E i \in 1..Len(messages) :
              /\ messages[i].conversation_id = c
              /\ like(search_pattern(query), messages[i].content)}

\* C8: a search that returns anything returns each matching conversation
\* once, min(limit, number of matching conversations) entries in all.
C8_SearchDistinctWithinLimit ==
    (last.op = "search_conversations" /\ last.result # <<>>)
        => /\ \A i, j \in 1..Len(last.result) :
                  last.result[i].id = last.result[j].id => i = j
           /\ ids_of(last.result) \subseteq search_matches(last.arg[1])
           /\ Len(last.result) =
                  Min(last.arg[2], Cardinality(search_matches(last.arg[1])))

\* C9: list_conversations(L, offset) returns no entry beyond the L-th, and
\* its entries are in non-increasing order of updated_at.
C9_ListWithinLimitSorted ==
    last.op = "list_conversations"
        => /\ \A i \in 1..Len(last.result) : i <= last.arg[1]
           /\ \A i \in 1..(Len(last.result) - 1) :
                  last.result[i].updated_at[1] >= last.result[i + 1].updated_at[1]

\* C10: right after add_message or update_conversation_title on an existing
\* conversation, list_conversations(limit >= 1, 0) returns it first.
C10_LastActiveFirst ==
    (/\ last.op \in {"add_message", "update_conversation_title"}
     /\ last.existed /\ last.status = "ok")
        => \A limit \in {l \in Limits : l >= 1} :
               list_conversations(limit, 0)[1].id = last.id

\* C11: a get_conversation that runs while add_message calls are made never
\* returns a message together with an updated_at older than that message:
\* every returned message was created no later than the returned updated_at.
C11_ReadNotStale ==
    (last.op = "get_conversation" /\ last.result # NoneResult) =>
        \A i \in 1..Len(last.result.messages) :
            last.result.messages[i].created_at[1] <= last.result.updated_at[1]

\* C12: a get_conversation that runs while delete_conversation is called
\* returns None or the conversation with at least the messages it owned
\* when the read began, never fewer.
C12_ReadNotPartlyDeleted ==
    (last.op = "get_conversation" /\ last.result # NoneResult) =>
        Len(last.result.messages) >= last.arg

\* The response stream is complete and neither chat() nor response_gen raised.
chat_completed ==
    /\ chat.pc = "done"
    /\ ~chat.response.chat_raises
    /\ ~chat.response.gen_raises

\* item is the i-th enumerated line of a Sources block.
enumerated_line(item, i) ==
    /\ Len(item) >= 3
    /\ item[1] = Digits[i + 1]
    /\ item[2] = ". "
    /\ item[Len(item)] = "\n"

\* C13: when the fragments end without an error, the output is the
\* fragments, unchanged and in order, followed by the Sources block (heading
\* and enumerated lines) if there is at least one source node and by
\* nothing if there is none.
C13_FragmentsThenSources ==
    chat_completed =>
        LET f == chat.response.fragments
            n == Len(f)
        IN /\ Len(chat.out) >= n
           /\ SubSeq(chat.out, 1, n) = f
           /\ IF chat.response.source_nodes = <<>>
              THEN Len(chat.out) = n
              ELSE /\ Len(chat.out) >= n + 2
                   /\ chat.out[n + 1] = SOURCES_HEADER
                   /\ \A i \in (n + 2)..Len(chat.out) :
                          enumerated_line(chat.out[i], i - n - 1)

C13_Witness ==
    /\ chat_completed
    /\ Len(chat.response.fragments) = 2
    /\ Len(chat.response.source_nodes) = 2
    /\ Len(chat.out) = 5

\* C14: the Sources block has exactly one enumerated line per distinct
\* (file_name, page_label) pair of the source nodes.
C14_OneLinePerPair ==
    (chat_completed /\ chat.response.source_nodes # <<>>) =>
        LET nodes == chat.response.source_nodes
            pairs == {<<nodes[i].file_name, nodes[i].page_label>> :
                         i \in 1..Len(nodes)}
        IN Len(chat.out) - Len(chat.response.fragments) - 1 = Cardinality(pairs)

\* The response stream is complete and chat() or response_gen raised.
chat_failed ==
    /\ chat.pc = "done"
    /\ chat.response.chat_raises \/ chat.response.gen_raises

\* C15: when chat() or the production of a fragment raises after k
\* fragments, the output is those k fragments and then one error marker,
\* which is the last item; there is no Sources block, and an item once
\* emitted stays in the output.
C15_FailedStream ==
    chat_failed =>
        LET k == IF chat.response.chat_raises THEN 0
                 ELSE Len(chat.response.fragments)
        IN /\ Len(chat.out) = k + 1
           /\ SubSeq(chat.out, 1, k) = SubSeq(chat.response.fragments, 1, k)
           /\ chat.out[k + 1] # <<>>
           /\ Head(chat.out[k + 1]) = "\n\nError: "
           /\ Tail(chat.out[k + 1]) = chat.response.error
           /\ \A i \in 1..Len(chat.out) : chat.out[i] # SOURCES_HEADER

C15_NothingRetracted ==
    (chat.pc = "streaming" /\ chat'.pc # "idle") =>
        /\ Len(chat'.out) >= Len(chat.out)
        /\ SubSeq(chat'.out, 1, Len(chat.out)) = chat.out

C15_ErrorMarkerLast == []C15_FailedStream /\ [][C15_NothingRetracted]_vars

C15_Witness ==
    /\ chat_failed
    /\ chat.response.gen_raises
    /\ Len(chat.response.fragments) = 2
    /\ chat.response.source_nodes # <<>>
    /\ Len(chat.out) = 3

\* C16: GET /api/conversations/<id> answers 404, and get_conversation
\* returns None, exactly when no conversation has the id (and the store did
\* not raise); it answers 500 exactly when the store raised.
C16_NotFoundIsNotFailure ==
    last.op = "api_get_conversation" =>
        LET http   == http_status(last.status)
            raised == last.arg = <<"raises">>
            exists == last.id \in DOMAIN conversations
        IN /\ ~raised => (last.result = NoneResult <=> ~exists)
           /\ http = 404 <=> (~raised /\ ~exists)
           /\ http = 500 <=> raised
           /\ http = 200 <=> (~raised /\ exists)

C16_Witness ==
    /\ last.op = "api_get_conversation"
    /\ last.status = "not_found"
    /\ DOMAIN conversations # {}

\* The last request was a PUT without 'title', a POST of a message without
\* 'role' or 'content', a chat without 'message' or a query without
\* 'question'.
lacks_required_field ==
    \/ last.op = "update_conversation_title" /\ last.arg = Absent
    \/ /\ last.op = "add_message"
       /\ Len(last.arg) = 2
       /\ last.arg[1] = Absent \/ last.arg[2] = Absent
    \/ last.op \in {"chat", "query"} /\ last.arg = Absent

C17_Rejected == lacks_required_field <=> http_status(last.status) = 400

C17_NothingTouched ==
    last'.status = "rejected" =>
        /\ conversations' = conversations
        /\ messages' = messages
        /\ agent' = agent
        /\ chat.pc = "idle" => chat'.pc = "idle"

C18_AllOrNothing ==
    [][last'.status = "raised" =>
          (conversations' = conversations /\ messages' = messages)]_vars

C18_Witness ==
    /\ last.op = "add_message"
    /\ last.status = "raised"
    /\ last.existed
    /\ Len(last.arg) = 1
    /\ last.arg[1] = "conn.commit()"

\* The step is a call that ended normally of add_message or
\* update_conversation_title on the existing conversation c.
touches(c) ==
    /\ now' = now
    /\ last'.op \in {"add_message", "update_conversation_title"}
    /\ last'.status = "ok"
    /\ last'.id = c

C19_UpdatedNotBeforeCreated ==
    \A c \in DOMAIN conversations :
        conversations[c].updated_at >= conversations[c].created_at

C19_Timestamps ==
    /\ \A c \in DOMAIN conversations' \ DOMAIN conversations :
          /\ conversations'[c].created_at = now
          /\ conversations'[c].updated_at = now
    /\ \A c \in DOMAIN conversations' \cap DOMAIN conversations :
          /\ conversations'[c].created_at = conversations[c].created_at
          /\ conversations'[c].updated_at =
                IF touches(c) THEN now ELSE conversations[c].updated_at

\* C19: every conversation has updated_at >= created_at; a conversation is
\* created with created_at = updated_at = the current time; created_at never
\* changes; updated_at becomes the current time at every add_message and
\* update_conversation_title on the conversation that ends normally, and
\* changes at no other step.
C19_TimestampsKept == []C19_UpdatedNotBeforeCreated /\ [][C19_Timestamps]_vars

C19_Witness ==
    /\ last.op = "add_message" /\ last.status = "ok" /\ last.existed
    /\ conversations[last.id].updated_at > conversations[last.id].created_at
    /\ \E c \in DOMAIN conversations :
          c # last.id /\ conversations[c].updated_at < now

\* C20: create_conversation never returns an id it has returned before,
\* whether or not the conversation that had it still exists, and every
\* conversation has an id that was returned exactly once.
C20_IdsNeverReissued ==
    /\ \A i, j \in 1..Len(issued) : i # j => issued[i] # issued[j]
    /\ DOMAIN conversations \subseteq {issued[i] : i \in 1..Len(issued)}

C20_Witness ==
    /\ last.op = "create_conversation" /\ last.status = "ok"
    /\ Len(issued) = 2
    /\ issued[1] \notin DOMAIN conversations
    /\ last.id = issued[2]

\* C21: delete_conversation and update_conversation_title called with an id
\* that matches no conversation end normally and leave every conversation
\* row and every message row as they were (a second delete of the same id is
\* such a call, so it changes nothing).
C21_MissingIdIsNoOp ==
    [][ ( /\ last'.op \in {"delete_conversation", "update_conversation_title"}
          /\ last'.id \notin DOMAIN conversations )
        => ( /\ last'.status = "ok"
             /\ conversations' = conversations
             /\ messages' = messages ) ]_vars

C21_Witness ==
    /\ last.op = "delete_conversation" /\ last.status = "ok"
    /\ ~last.existed
    /\ DOMAIN conversations # {}
    /\ message_count(last.id) > 0

\* C22: in every reachable state, each entry that list_conversations and
\* search_conversations return carries a message_count equal to the number
\* of messages get_conversation returns for the entry's id in that state.
C22_entries(rows) ==
    \A i \in 1..Len(rows) :
        rows[i].message_count = Len(get_conversation(rows[i].id).messages)

C22_MessageCountIsLength ==
    /\ \A limit \in Limits, offset \in Offsets :
           C22_entries(list_conversations(limit, offset))
    /\ \A query \in Queries, limit \in Limits :
           C22_entries(search_conversations(query, limit))

C22_Witness ==
    /\ last.op = "search_conversations" /\ last.status = "ok"
    /\ Len(last.result) = 2
    /\ last.result[1].message_count = 1
    /\ last.result[2].message_count = 1

\* The names of a path with each ".." and the name before it removed
\* (os.path.normpath): where the path leads.
RECURSIVE normpath(_, _)
normpath(names, done) ==
    IF names = <<>> THEN done
    ELSE IF Head(names) = <<"..">>
         THEN normpath(Tail(names),
                       IF done = <<>> THEN <<>>
                       ELSE SubSeq(done, 1, Len(done) - 1))
         ELSE normpath(Tail(names), Append(done, Head(names)))

\* file_path leads to a file under the document root.
under_root(file_path) ==
    LET names == normpath(Path(file_path).names, <<>>)
        root  == Path(DATA_DIR).names
    IN /\ Path(file_path).root
       /\ Len(names) > Len(root)
       /\ SubSeq(names, 1, Len(root)) = root

\* The root-relative path of a file under the root, with forward slashes.
root_relative(file_path) ==
    LET names == normpath(Path(file_path).names, <<>>)
    IN join(<<"/">>, SubSeq(names, Len(Path(DATA_DIR).names) + 1, Len(names)))

\* The records of nodes the loop keeps.
RECURSIVE kept_records(_, _)
kept_records(nodes, seen) ==
    IF nodes = <<>> THEN <<>>
    ELSE LET id == source_id(dict_get(Head(nodes), "file_name", <<"Unknown">>),
                             dict_get(Head(nodes), "page_label", <<>>))
         IN IF id \in seen THEN kept_records(Tail(nodes), seen)
            ELSE <<Head(nodes)>> \o kept_records(Tail(nodes), seen \cup {id})

\* The entry the claim gives a kept record.
C23_entry(metadata) ==
    LET file_name  == dict_get(metadata, "file_name", <<"Unknown">>)
        page_label == dict_get(metadata, "page_label", <<>>)
        file_path  == dict_get(metadata, "file_path", <<>>)
        display    == IF page_label = <<>> THEN file_name
                      ELSE file_name \o <<" (Page ">> \o page_label \o <<")">>
        link(url)  == <<"[">> \o display \o <<"](">> \o <<"/static/pdfs/">>
                      \o url \o <<")">>
    IN IF file_path = <<>> THEN display
       ELSE IF under_root(file_path) THEN link(root_relative(file_path))
       ELSE link(file_name)

\* C23: the stream of an answer that ends without an error has one line for
\* every kept source record and no error marker: a link to /static/pdfs/
\* plus the root-relative path when the file path is under the document
\* root, a link to /static/pdfs/ plus the file name when it is outside, plain
\* text when there is no file path, and "(Page label)" in the text exactly
\* when there is a page label.
C23_LinkForms ==
    (chat_completed /\ chat.response.source_nodes # <<>>) =>
        LET kept == kept_records(chat.response.source_nodes, {})
            n    == Len(chat.response.fragments)
        IN /\ Len(chat.out) = n + 1 + Len(kept)
           /\ \A i \in 1..Len(kept) :
                  chat.out[n + 1 + i] = source_line(i, C23_entry(kept[i]))

\* C24: once the stream is closed by a disconnect, generate() yields nothing
\* more and pulls nothing more from response_gen: what the caller received
\* and what was still to come stay as they were at the close, until the
\* request is over.
C24_NothingAfterClose ==
    [][ chat.pc = "closed" =>
          \/ chat'.pc = "idle"
          \/ /\ chat'.pc = "closed"
             /\ chat'.out = chat.out
             /\ chat'.rest = chat.rest ]_vars

C24_Witness ==
    /\ chat.pc = "closed"
    /\ Len(chat.response.fragments) = 2
    /\ chat.response.source_nodes # <<>>
    /\ chat.out = <<chat.response.fragments[1]>>
    /\ Len(chat.rest) = 3

\* The last request needed the agent, and the agent could not be
\* constructed.
construction_failed ==
    /\ last.upstream.agent = None
    /\ last.upstream.get_agent.raises # "none"

\* C25: when the agent cannot be constructed, /api/query, /api/chat and
\* /api/reset answer 500 with the message of the error, and /api/chat opens
\* no stream; when the agent exists and its query or reset_chat raises, the
\* answer is 500 with the message of the error.
C25_UpstreamFailureReported ==
    (last.op \in {"query", "chat", "reset"} /\ last.status # "rejected") =>
        /\ construction_failed =>
               /\ http_status(last.status) = 500
               /\ last.result = [error |-> last.upstream.get_agent.message]
               /\ last.op = "chat" => chat.pc = "idle"
        /\ ( /\ ~construction_failed
             /\ last.upstream.raises
             /\ last.op \in {"query", "reset"} ) =>
               /\ http_status(last.status) = 500
               /\ last.result = [error |-> <<"boom">>]

\* The add_message call of thread t has returned its message id.
added(t) == writers[t].pc = "returned" /\ writers[t].status = "ok"

\* get_conversation returns the message that thread t added exactly once.
returned_once(t) ==
    LET id   == writers[t].call.id
        rows == messages_of(id, messages)
        at   == {i \in 1..Len(rows) : rows[i].id = writers[t].result}
    IN /\ Cardinality(at) = 1
       /\ \A i \in at :
              /\ get_conversation(id).messages[i].role = writers[t].call.role
              /\ get_conversation(id).messages[i].content = writers[t].call.content

\* C26: when the add_message calls of two threads on the same existing
\* conversation have both returned, get_conversation returns the message of
\* each exactly once, and updated_at is not earlier than the time of either
\* write.
C26_BothWritesKept ==
    \A t, u \in Threads :
        ( /\ t # u /\ added(t) /\ added(u)
          /\ writers[t].call.id = writers[u].call.id
          /\ writers[t].call.id \in DOMAIN conversations )
        => /\ writers[t].result # writers[u].result
           /\ returned_once(t) /\ returned_once(u)
           /\ conversations[writers[t].call.id].updated_at >= writers[t].at
           /\ conversations[writers[t].call.id].updated_at >= writers[u].at

C26_Witness ==
    /\ added(1) /\ added(2)
    /\ writers[2].overlapped
    /\ writers[1].call.id = writers[2].call.id
    /\ writers[1].call.id \in DOMAIN conversations
    /\ writers[1].at < writers[2].at
    /\ Len(get_conversation(writers[1].call.id).messages) = 2

\* The (file_name, page_label) pair of a source record.
pair_of(metadata) ==
    <<dict_get(metadata, "file_name", <<"Unknown">>),
      dict_get(metadata, "page_label", <<>>)>>

\* The first record of each pair, in the order the records come.
RECURSIVE first_of_each_pair(_, _)
first_of_each_pair(nodes, pairs) ==
    IF nodes = <<>> THEN <<>>
    ELSE IF pair_of(Head(nodes)) \in pairs
         THEN first_of_each_pair(Tail(nodes), pairs)
         ELSE <<Head(nodes)>> \o
              first_of_each_pair(Tail(nodes), pairs \cup {pair_of(Head(nodes))})

\* No two records with different pairs have the same source_id.
pairs_have_own_ids(nodes) ==
    \A i, j \in 1..Len(nodes) :
        source_id(pair_of(nodes[i])[1], pair_of(nodes[i])[2])
          = source_id(pair_of(nodes[j])[1], pair_of(nodes[j])[2])
        => pair_of(nodes[i]) = pair_of(nodes[j])

\* C27: the Sources block of an answer that ends without an error has one
\* line for the first record of each (file_name, page_label) pair, made from
\* that record's file path, in the order the records come, and the lines are
\* numbered 1..k.
C27_FirstOfPairInOrder ==
    (chat_completed /\ chat.response.source_nodes # <<>>) =>
        LET kept == first_of_each_pair(chat.response.source_nodes, {})
            n    == Len(chat.response.fragments)
        IN /\ Len(chat.out) = n + 1 + Len(kept)
           /\ \A i \in 1..Len(kept) :
                  chat.out[n + 1 + i] =
                      source_line(i, format_source(
                          pair_of(kept[i])[1], pair_of(kept[i])[2],
                          dict_get(kept[i], "file_path", <<>>)))

\* What the last get_agent() of thread t returned, or None.
got(t) ==
    IF "got" \in DOMAIN requests[t] THEN requests[t].got ELSE None

\* C28: every call of get_agent() in the process returns the same QAAgent
\* instance, and QAAgent is constructed at most once, also when the first
\* calls come from handlers that run at the same time.
C28_OneAgent ==
    /\ constructed <= 1
    /\ \A t, u \in Threads :
           (got(t) # None /\ got(u) # None) => got(t) = got(u)

\* The app has an agent only after a construction that succeeded.
C30_OnlyConstructedIsKept == agent # None => constructed >= 1

\* A step keeps the agent the app has, and constructs no agent when one was
\* constructed before.
C30_Reused ==
    /\ agent # None => agent' = agent
    /\ constructed >= 1 => constructed' = constructed

\* C30: a construction that failed leaves the app without an agent, so the
\* next request constructs again; once a construction has succeeded, every
\* later step keeps that agent and constructs no other.
C30_FailureNotCachedSuccessReused ==
    []C30_OnlyConstructedIsKept /\ [][C30_Reused]_vars

\* C29: title generation on a conversation with a user message sets and
\* returns the first user message when it has at most 50 characters, and
\* its first 47 characters followed by "..." when it has more, a title of 50
\* characters; it answers 404 and changes no table when the conversation is
\* absent or has no messages, and 400 when no message is from the user.
C29_step ==
    last'.op = "generate_conversation_title" =>
        LET id    == last'.id
            rows  == messages_of(id, messages)
            users == SelectSeq(rows, LAMBDA m : m.role = <<"user">>)
            http  == http_status(last'.status)
        IN IF id \notin DOMAIN conversations \/ rows = <<>>
           THEN /\ http = 404
                /\ conversations' = conversations
                /\ messages' = messages
           ELSE IF users = <<>>
           THEN http = 400
           ELSE LET m     == users[1].content
                    title == last'.result.title
                IN /\ http = 200
                   /\ conversations'[id].title = title
                   /\ Len(title) <= 50
                   /\ Len(m) <= 50 => title = m
                   /\ Len(m) > 50 =>
                          /\ Len(title) = 50
                          /\ SubSeq(title, 1, 47) = SubSeq(m, 1, 47)
                          /\ SubSeq(title, 48, 50) = <<".", ".", ".">>

C29_TitleFromFirstUserMessage == [][C29_step]_vars

C29_Witness ==
    /\ last.op = "generate_conversation_title" /\ last.status = "ok"
    /\ Len(messages) = 2
    /\ messages[1].conversation_id = last.id
    /\ messages[1].role = <<"assistant">>
    /\ messages[2].conversation_id = last.id
    /\ Len(messages[2].content) = 51
    /\ Len(conversations[last.id].title) = 50

====
